---- MODULE Spec2Model ----
(***************************************************************************)
(* Model of src/Feedback_api.js: the SkillsFeedback function (validator,   *)
(* outbound completion call, response parser) and the POST                 *)
(* /skills-feedback route that wraps it.                                   *)
(*                                                                         *)
(* Strings are sequences of tokens.  A token is a piece of text that the   *)
(* code's string operations never cut in two: a word, one blank, the line  *)
(* break, a "digits then period" group, and the pieces of the six labels   *)
(* (TOP, _, STRENGTHS: ...).  Every string operation of the code (split,   *)
(* trim, toUpperCase, includes, replace, split on a pattern) is modelled   *)
(* on these sequences by what it does.                                     *)
(***************************************************************************)
EXTENDS Integers, Sequences, FiniteSets, TLC

VARIABLES
    feedbackText,   \* parser: the argument of parseFeedbackResponse
    shape,          \* parser: how feedbackText was put together (history only)
    ppc,            \* parser: position inside parseFeedbackResponse
    scanned,        \* parser: topStrengths/practicalExperience/domainKnowledge after the loop
    parsedFeedback, \* parser: the object parseFeedbackResponse returns
    result,         \* parser: the object SkillsFeedback returns on success
    vskills,        \* validator: argument skills
    vcomment,       \* validator: argument overallComment
    validation,     \* validator: what validateInput did
    req             \* route: per request, the position and locals of its handler

vars == <<feedbackText, shape, ppc, scanned, parsedFeedback, result,
          vskills, vcomment, validation, req>>

(***************************************************************************)
(* Bounds of the model.                                                    *)
(***************************************************************************)
MaxLines == 3       \* lines of a reply text in SpecParse
MaxBlank == 2       \* blank lines added to a three-label text in SpecLabelled
MaxSkills == 2      \* elements of a skills array in SpecValidate
NumRequests == 2    \* requests in flight at once in Spec

(***************************************************************************)
(* Tokens and the string operations of JavaScript the code uses.           *)
(***************************************************************************)
SP == " "
NL == "\n"
Whitespace == {SP, NL}

\* String.prototype.toUpperCase, token by token.
Upper(t) ==
    CASE t \in {"top", "Top"} -> "TOP"
      [] t \in {"practical", "Practical"} -> "PRACTICAL"
      [] t \in {"domain", "Domain"} -> "DOMAIN"
      [] t \in {"strengths:", "Strengths:"} -> "STRENGTHS:"
      [] t \in {"experience:", "Experience:"} -> "EXPERIENCE:"
      [] t \in {"knowledge:", "Knowledge:"} -> "KNOWLEDGE:"
      [] OTHER -> t

toUpperCase(s) == [i \in DOMAIN s |-> Upper(s[i])]

\* The first position at which pat occurs in s, 0 when it does not.
IndexOf(s, pat) ==
    LET hits == {i \in 1..(Len(s) - Len(pat) + 1) : SubSeq(s, i, i + Len(pat) - 1) = pat}
    IN  IF hits = {} THEN 0 ELSE CHOOSE i \in hits : \A j \in hits : i <= j

\* String.prototype.includes
includes(s, pat) == IndexOf(s, pat) # 0

\* A faulty variant of replaceCI: the pattern has lost its i flag.
replaceCaseSensitive(s, pat) ==
    LET i == IndexOf(s, pat)
    IN  IF i = 0 THEN s
        ELSE SubSeq(s, 1, i - 1) \o SubSeq(s, i + Len(pat), Len(s))

\* s.replace(/pat/i, ''): the first occurrence of pat, letter case ignored, removed.
replaceCI(s, pat) ==
    LET i == IndexOf(toUpperCase(s), pat)
    IN  IF i = 0 THEN s
        ELSE SubSeq(s, 1, i - 1) \o SubSeq(s, i + Len(pat), Len(s))

\* String.prototype.trim
trim(s) ==
    LET keep == {i \in DOMAIN s : s[i] \notin Whitespace}
    IN  IF keep = {} THEN <<>>
        ELSE SubSeq(s, CHOOSE i \in keep : \A j \in keep : i <= j,
                       CHOOSE i \in keep : \A j \in keep : i >= j)

\* s.split(sep) for a separator that is one token of the set seps: the pieces
\* between the separators, empty pieces kept.
RECURSIVE splitAt(_, _)
splitAt(s, seps) ==
    LET cuts == {i \in DOMAIN s : s[i] \in seps}
    IN  IF cuts = {} THEN <<s>>
        ELSE LET i == CHOOSE c \in cuts : \A d \in cuts : c <= d
             IN  <<SubSeq(s, 1, i - 1)>> \o splitAt(SubSeq(s, i + 1, Len(s)), seps)

notBlank(s) == trim(s) # <<>>

\* feedbackText.split('\n').filter(line => line.trim() !== '')
splitLines(text) == SelectSeq(splitAt(text, {NL}), notBlank)

\* The tokens the pattern /\d+\.|TOP|PRACTICAL|DOMAIN/i matches.
SectionSeparators ==
    {"1.", "TOP", "PRACTICAL", "DOMAIN", "top", "practical", "domain",
     "Top", "Practical", "Domain"}

\* feedbackText.split(/\d+\.|TOP|PRACTICAL|DOMAIN/i).filter(section => section.trim() !== '')
splitSections(text) == SelectSeq(splitAt(text, SectionSeparators), notBlank)

(***************************************************************************)
(* parseFeedbackResponse                                                   *)
(***************************************************************************)
TOP_STRENGTHS == <<"TOP", "_", "STRENGTHS:">>
TOP_STRENGTHS_SP == <<"TOP", SP, "STRENGTHS:">>
PRACTICAL_EXPERIENCE == <<"PRACTICAL", "_", "EXPERIENCE:">>
PRACTICAL_EXPERIENCE_SP == <<"PRACTICAL", SP, "EXPERIENCE:">>
DOMAIN_KNOWLEDGE == <<"DOMAIN", "_", "KNOWLEDGE:">>
DOMAIN_KNOWLEDGE_SP == <<"DOMAIN", SP, "KNOWLEDGE:">>

DefaultTopStrengths == <<"Strong technical skills identified from assessment.">>
DefaultPracticalExperience == <<"Hands-on experience demonstrated through skill ratings.">>
DefaultDomainKnowledge == <<"Domain expertise with areas for continued development.">>

Unset == [topStrengths |-> <<>>, practicalExperience |-> <<>>, domainKnowledge |-> <<>>]

\* line.replace(/X_Y:/i, '').replace(/X Y:/i, '').trim()
stripLabel(line, underscored, spaced) == trim(replaceCI(replaceCI(line, underscored), spaced))

hasLabel(line, underscored, spaced) ==
    includes(toUpperCase(line), underscored) \/ includes(toUpperCase(line), spaced)

\* One turn of the loop over the lines: the if / else if chain.
scanLine(acc, line) ==
    IF hasLabel(line, TOP_STRENGTHS, TOP_STRENGTHS_SP)
    THEN [acc EXCEPT !.topStrengths = stripLabel(line, TOP_STRENGTHS, TOP_STRENGTHS_SP)]
    ELSE IF hasLabel(line, PRACTICAL_EXPERIENCE, PRACTICAL_EXPERIENCE_SP)
    THEN [acc EXCEPT !.practicalExperience =
              stripLabel(line, PRACTICAL_EXPERIENCE, PRACTICAL_EXPERIENCE_SP)]
    ELSE IF hasLabel(line, DOMAIN_KNOWLEDGE, DOMAIN_KNOWLEDGE_SP)
    THEN [acc EXCEPT !.domainKnowledge = stripLabel(line, DOMAIN_KNOWLEDGE, DOMAIN_KNOWLEDGE_SP)]
    ELSE acc

\* A faulty variant of scanFrom: the lines are taken from the last to the first, so
\* that the first line with a label wins.
RECURSIVE scanFromFirstWins(_, _)
scanFromFirstWins(acc, lines) ==
    IF lines = <<>> THEN acc
    ELSE scanLine(scanFromFirstWins(acc, Tail(lines)), Head(lines))

\* The loop: for (const line of lines), from the three empty strings.
RECURSIVE scanFrom(_, _)
scanFrom(acc, lines) ==
    IF lines = <<>> THEN acc ELSE scanFrom(scanLine(acc, Head(lines)), Tail(lines))

scanLines(text) == scanFrom(Unset, splitLines(text))

\* The block run when the loop left all three fields empty.
fallback(text) ==
    LET sections == splitSections(text)
    IN  IF Len(sections) >= 3
        THEN [topStrengths |-> trim(sections[1]),
              practicalExperience |-> trim(sections[2]),
              domainKnowledge |-> trim(sections[3])]
        ELSE [topStrengths |-> DefaultTopStrengths,
              practicalExperience |-> DefaultPracticalExperience,
              domainKnowledge |-> DefaultDomainKnowledge]

\* A faulty variant of orDefault: the field is returned as it is.
orDefaultMissing(field, default) == field

\* field || 'canned sentence'
orDefault(field, default) == IF field = <<>> THEN default ELSE field

\* From the end of the loop to the return.
resolve(text, fields) ==
    LET f == IF fields.topStrengths = <<>> /\ fields.practicalExperience = <<>>
                /\ fields.domainKnowledge = <<>>
             THEN fallback(text) ELSE fields
    IN  [topStrengths |-> orDefault(f.topStrengths, DefaultTopStrengths),
         practicalExperience |-> orDefault(f.practicalExperience, DefaultPracticalExperience),
         domainKnowledge |-> orDefault(f.domainKnowledge, DefaultDomainKnowledge)]

parseFeedbackResponse(text) == resolve(text, scanLines(text))

(***************************************************************************)
(* What SkillsFeedback returns (the ApiResponse).  An absent error is "",  *)
(* an absent feedback has hasFeedback = FALSE.                             *)
(***************************************************************************)
NoFeedback == [Top_strength |-> <<>>, practical_Experience |-> <<>>, DOmain_Knowledge |-> <<>>]
NoResult == [success |-> FALSE, error |-> "", hasFeedback |-> FALSE, feedback |-> NoFeedback]

\* return { success: true, feedback: { Top_strength: ..., ... } }
successResult(parsed) ==
    [success |-> TRUE, error |-> "", hasFeedback |-> TRUE,
     feedback |-> [Top_strength |-> parsed.topStrengths,
                   practical_Experience |-> parsed.practicalExperience,
                   DOmain_Knowledge |-> parsed.domainKnowledge]]

(***************************************************************************)
(* Reply texts.  A text is put together from lines, a line from segments:  *)
(* a label of a category in one of its four spellings followed by its      *)
(* content, or plain text (cat = "none").  Only the rendered token         *)
(* sequence is handed to the parser.                                       *)
(***************************************************************************)
Categories == {"top", "practical", "domain"}
Variants == {"UPPER_", "UPPER ", "lower_", "lower ", "Mixed "}

\* A word of a label in the letter case of the variant.
Cased(variant, upper, lower, mixed) ==
    IF variant \in {"UPPER_", "UPPER "} THEN upper
    ELSE IF variant \in {"lower_", "lower "} THEN lower
    ELSE mixed

LabelTokens(cat, variant) ==
    LET sep == IF variant \in {"UPPER_", "lower_"} THEN "_" ELSE SP
    IN  CASE cat = "top" ->
                <<Cased(variant, "TOP", "top", "Top"), sep,
                  Cased(variant, "STRENGTHS:", "strengths:", "Strengths:")>>
          [] cat = "practical" ->
                <<Cased(variant, "PRACTICAL", "practical", "Practical"), sep,
                  Cased(variant, "EXPERIENCE:", "experience:", "Experience:")>>
          [] cat = "domain" ->
                <<Cased(variant, "DOMAIN", "domain", "Domain"), sep,
                  Cased(variant, "KNOWLEDGE:", "knowledge:", "Knowledge:")>>

Seg(cat, variant, text) == [cat |-> cat, variant |-> variant, text |-> text]
Plain(text) == <<Seg("none", "-", text)>>
Labelled(cat, variant, text) == <<Seg(cat, variant, text)>>

\* The tokens of one segment; without its label when bare.
RenderSeg(seg, bare) ==
    IF seg.cat = "none" \/ bare THEN seg.text
    ELSE IF seg.text = <<>> THEN LabelTokens(seg.cat, seg.variant)
    ELSE LabelTokens(seg.cat, seg.variant) \o <<SP>> \o seg.text

\* The tokens of a line: its segments with one blank between them.  The
\* segment numbered skip is rendered without its label.
RECURSIVE RenderFrom(_, _, _)
RenderFrom(line, i, skip) ==
    IF i > Len(line) THEN <<>>
    ELSE RenderSeg(line[i], i = skip)
         \o (IF i < Len(line) THEN <<SP>> ELSE <<>>)
         \o RenderFrom(line, i + 1, skip)

RenderLine(line) == RenderFrom(line, 1, 0)

\* The lines joined by line breaks.
RECURSIVE Render(_)
Render(lines) ==
    IF lines = <<>> THEN <<>>
    ELSE IF Len(lines) = 1 THEN RenderLine(lines[1])
    ELSE RenderLine(lines[1]) \o <<NL>> \o Render(Tail(lines))

\* The lines a reply is drawn from in SpecParse.
ReplyLines ==
    { <<>>,
      Plain(<<SP>>),
      Plain(<<"A">>),
      Plain(<<"1.", SP, "B">>),
      Labelled("top", "UPPER_", <<>>),
      Labelled("top", "UPPER_", <<"A">>),
      Labelled("top", "Mixed ", <<"B">>),
      Labelled("practical", "UPPER ", <<>>),
      Labelled("practical", "lower_", <<"B">>),
      Labelled("domain", "UPPER_", <<>>),
      Labelled("domain", "lower ", <<"C">>),
      <<Seg("top", "UPPER_", <<"A">>), Seg("practical", "UPPER_", <<"C">>)>> }

SeqsUpTo(S, n) == UNION {[1..k -> S] : k \in 0..n}

(***************************************************************************)
(* Values of JavaScript, as far as the validator tells them apart.         *)
(* A number is held in tenths (rating 2.5 is 25); NaN has a kind of its    *)
(* own; a string is a token sequence.                                      *)
(***************************************************************************)
JsUndefined == [k |-> "undefined", n |-> 0, s |-> <<>>]
JsNull == [k |-> "null", n |-> 0, s |-> <<>>]
JsNaN == [k |-> "nan", n |-> 0, s |-> <<>>]
JsNumber(tenths) == [k |-> "number", n |-> tenths, s |-> <<>>]
JsString(tokens) == [k |-> "string", n |-> 0, s |-> tokens]

\* typeof v
typeof(v) == IF v.k = "nan" THEN "number" ELSE IF v.k = "null" THEN "object" ELSE v.k

\* !v
falsy(v) ==
    \/ v.k \in {"undefined", "null", "nan"}
    \/ v.k = "number" /\ v.n = 0
    \/ v.k = "string" /\ v.s = <<>>

\* An element of the skills array: null, a primitive (whose .name and .rating
\* read as undefined) or an object with the two properties.
SkillNull == [k |-> "null", name |-> JsUndefined, rating |-> JsUndefined]
SkillPrimitive == [k |-> "number", name |-> JsUndefined, rating |-> JsUndefined]
Skill(name, rating) == [k |-> "object", name |-> name, rating |-> rating]

\* The argument skills: an array, or something that is not one.
SkillsArray(elems) == [k |-> "array", elems |-> elems]
SkillsOther(kind) == [k |-> kind, elems |-> <<>>]

(***************************************************************************)
(* validateInput.  It returns { isValid, message } or throws.              *)
(***************************************************************************)
InvalidSkills == "Invalid input. Please provide an array of skills."
InvalidComment == "Please provide an overall comment about your skills."
InvalidName == "Each skill must have a valid name."
InvalidRating == "Each skill must have a rating between 1 and 5."

Returned(isValid, message) == [kind |-> "return", isValid |-> isValid, message |-> message]
Threw == [kind |-> "throw", isValid |-> FALSE, message |-> "TypeError"]
NotRun == [kind |-> "none", isValid |-> FALSE, message |-> ""]

\* The loop over the skills: the first element that fails decides; reading
\* .name of null throws a TypeError.
RECURSIVE checkSkills(_)
checkSkills(elems) ==
    IF elems = <<>> THEN Returned(TRUE, "")
    ELSE LET skill == Head(elems)
         IN  IF skill.k = "null" THEN Threw
             ELSE IF falsy(skill.name) \/ typeof(skill.name) # "string"
             THEN Returned(FALSE, InvalidName)
             ELSE IF \/ falsy(skill.rating)
                     \/ typeof(skill.rating) # "number"
                     \/ skill.rating.n < 10
                     \/ skill.rating.n > 50
             THEN Returned(FALSE, InvalidRating)
             ELSE checkSkills(Tail(elems))

validateInput(skills, overallComment) ==
    IF skills.k # "array" \/ Len(skills.elems) = 0
    THEN Returned(FALSE, InvalidSkills)
    ELSE IF \/ falsy(overallComment)
            \/ typeof(overallComment) # "string"
            \/ trim(overallComment.s) = <<>>
    THEN Returned(FALSE, InvalidComment)
    ELSE checkSkills(skills.elems)

(***************************************************************************)
(* Idle values of the variables a specification does not use.              *)
(***************************************************************************)
ParserIdle ==
    /\ feedbackText = <<>>
    /\ shape = <<>>
    /\ ppc = "off"
    /\ scanned = Unset
    /\ parsedFeedback = Unset
    /\ result = NoResult

ValidatorIdle ==
    /\ vskills = SkillsOther("undefined")
    /\ vcomment = JsUndefined
    /\ validation = NotRun

RouteIdle == req = <<>>

parserVars == <<feedbackText, shape, ppc, scanned, parsedFeedback, result>>
validatorVars == <<vskills, vcomment, validation>>

(***************************************************************************)
(* SpecParse: parseFeedbackResponse on a reply text, then the success      *)
(* return of SkillsFeedback.                                               *)
(***************************************************************************)
InitParse ==
    /\ shape \in SeqsUpTo(ReplyLines, MaxLines)
    /\ feedbackText = Render(shape)
    /\ ppc = "called"
    /\ scanned = Unset
    /\ parsedFeedback = Unset
    /\ result = NoResult
    /\ ValidatorIdle
    /\ RouteIdle

\* The split into lines and the loop over them.
ScanLines ==
    /\ ppc = "called"
    /\ scanned' = scanLines(feedbackText)
    /\ ppc' = "scanned"
    /\ UNCHANGED <<feedbackText, shape, parsedFeedback, result, validatorVars, req>>

\* The fallback block and the return with the canned defaults.
Resolve ==
    /\ ppc = "scanned"
    /\ parsedFeedback' = resolve(feedbackText, scanned)
    /\ ppc' = "parsed"
    /\ UNCHANGED <<feedbackText, shape, scanned, result, validatorVars, req>>

\* SkillsFeedback wraps the parsed feedback into its success result.
Succeed ==
    /\ ppc = "parsed"
    /\ result' = successResult(parsedFeedback)
    /\ ppc' = "returned"
    /\ UNCHANGED <<feedbackText, shape, scanned, parsedFeedback, validatorVars, req>>

NextParse == ScanLines \/ Resolve \/ Succeed

SpecParse == InitParse /\ [][NextParse]_vars

(***************************************************************************)
(* SpecValidate: validateInput on one pair of arguments.                   *)
(***************************************************************************)
SkillNames == {JsUndefined, JsString(<<>>), JsString(<<SP>>), JsString(<<"Go">>), JsNumber(70)}
SkillRatings ==
    {JsUndefined, JsNull, JsNaN, JsNumber(0), JsNumber(9), JsNumber(10), JsNumber(25),
     JsNumber(50), JsNumber(51), JsNumber(60), JsString(<<"3">>)}
SkillElements ==
    {SkillNull, SkillPrimitive} \cup {Skill(n, r) : n \in SkillNames, r \in SkillRatings}
SkillsInputs ==
    {SkillsOther(k) : k \in {"undefined", "null", "object"}}
        \cup {SkillsArray(e) : e \in SeqsUpTo(SkillElements, MaxSkills)}
CommentInputs ==
    {JsUndefined, JsNumber(50), JsString(<<>>), JsString(<<SP>>), JsString(<<"solid">>),
     JsString(<<SP, "ok", SP>>)}

InitValidate ==
    /\ vskills \in SkillsInputs
    /\ vcomment \in CommentInputs
    /\ validation = NotRun
    /\ ParserIdle
    /\ RouteIdle

Validate ==
    /\ validation = NotRun
    /\ validation' = validateInput(vskills, vcomment)
    /\ UNCHANGED <<vskills, vcomment, parserVars, req>>

NextValidate == Validate

SpecValidate == InitValidate /\ [][NextValidate]_vars

(***************************************************************************)
(* Spec: POST /skills-feedback, several requests in flight.  A step is     *)
(* what one handler does between two awaits.                               *)
(***************************************************************************)
Requests == 1..NumRequests

GenerationFailed == "Failed to generate feedback"
Unavailable == <<"Unable to generate feedback at this time.">>
InternalServerError == "Internal server error"

\* A faulty variant of validationFailure: the fallback feedback is attached.
validationFailureWithFeedback(v) ==
    [success |-> FALSE, error |-> v.message, hasFeedback |-> TRUE,
     feedback |-> [Top_strength |-> <<"Unable to generate feedback at this time.">>,
                   practical_Experience |-> <<"Unable to generate feedback at this time.">>,
                   DOmain_Knowledge |-> <<"Unable to generate feedback at this time.">>]]

\* return { success: false, error: validation.message }
validationFailure(v) ==
    [success |-> FALSE, error |-> v.message, hasFeedback |-> FALSE, feedback |-> NoFeedback]

\* A faulty variant of upstreamFailure: one field keeps a canned parser default.
upstreamFailureMixed ==
    [success |-> FALSE, error |-> GenerationFailed, hasFeedback |-> TRUE,
     feedback |-> [Top_strength |-> DefaultTopStrengths,
                   practical_Experience |-> Unavailable,
                   DOmain_Knowledge |-> Unavailable]]

\* The object the catch block of SkillsFeedback returns.
upstreamFailure ==
    [success |-> FALSE, error |-> GenerationFailed, hasFeedback |-> TRUE,
     feedback |-> [Top_strength |-> Unavailable,
                   practical_Experience |-> Unavailable,
                   DOmain_Knowledge |-> Unavailable]]

\* The object the catch block of the route sends with status 500.
internalError ==
    [success |-> FALSE, error |-> InternalServerError, hasFeedback |-> FALSE,
     feedback |-> NoFeedback]

\* What was sent for a request: by the route's handler (res.json, or
\* res.status(500).json with createdAt), by the framework's own error
\* handling, or by nobody.
Sent(sender, status, body, createdAt) ==
    [sender |-> sender, status |-> status, body |-> body, createdAt |-> createdAt]
NoResponse == Sent("none", 0, NoResult, FALSE)

\* The numbers the prompt states: skills.length, the sum behind averageRating,
\* the skills rated >= 4 and those rated <= 2.
RECURSIVE sumRatings(_)
sumRatings(elems) ==
    IF elems = <<>> THEN 0 ELSE Head(elems).rating.n + sumRatings(Tail(elems))

buildPrompt(skills, overallComment) ==
    [total |-> Len(skills.elems),
     sum |-> sumRatings(skills.elems),
     highRatedSkills |-> Cardinality({i \in DOMAIN skills.elems : skills.elems[i].rating.n >= 40}),
     lowRatedSkills |-> Cardinality({i \in DOMAIN skills.elems : skills.elems[i].rating.n <= 20}),
     comment |-> overallComment.s]
NoPrompt ==
    [total |-> 0, sum |-> 0, highRatedSkills |-> 0, lowRatedSkills |-> 0, comment |-> <<>>]

\* What the completion service did with one call: fetch rejected
\* (net = "error"), or it answered with response.ok = ok and a body that
\* response.json() cannot read ("invalid"), an error object ("error"), an
\* object without choices[0].message ("noChoices"), a null content
\* ("nullContent") or a content string ("text").
Reply(net, ok, json, text) == [net |-> net, ok |-> ok, json |-> json, text |-> text]
NoReply == Reply("none", FALSE, "invalid", <<>>)

ReplyTexts ==
    { Render(<<Labelled("top", "UPPER_", <<"A">>), Labelled("practical", "UPPER ", <<"B">>),
               Labelled("domain", "lower_", <<"C">>)>>),
      Render(<<Plain(<<"A">>)>>),
      Render(<<Labelled("top", "UPPER_", <<>>), Labelled("practical", "lower ", <<"B">>)>>) }

Replies ==
    { Reply("error", FALSE, "invalid", <<>>),
      Reply("ok", FALSE, "error", <<>>),
      Reply("ok", FALSE, "invalid", <<>>),
      Reply("ok", TRUE, "invalid", <<>>),
      Reply("ok", TRUE, "noChoices", <<>>),
      Reply("ok", TRUE, "nullContent", <<>>) }
        \cup {Reply("ok", TRUE, "text", t) : t \in ReplyTexts}

\* What arrives on the wire: a JSON object, a body that is not JSON, or no
\* JSON body at all.
Wire(kind, skills, overallComment) ==
    [kind |-> kind, skills |-> skills, overallComment |-> overallComment]

Go == Skill(JsString(<<"Go">>), JsNumber(50))
Sql == Skill(JsString(<<"SQL">>), JsNumber(20))
Solid == JsString(<<"solid">>)

Bodies ==
    { Wire("malformed", SkillsOther("undefined"), JsUndefined),
      Wire("absent", SkillsOther("undefined"), JsUndefined),
      Wire("json", SkillsArray(<<>>), Solid),
      Wire("json", SkillsArray(<<Go>>), JsString(<<SP>>)),
      Wire("json", SkillsArray(<<Go, Skill(JsString(<<"SQL">>), JsNumber(60))>>), Solid),
      Wire("json", SkillsArray(<<Skill(JsString(<<>>), JsNumber(30))>>), Solid),
      Wire("json", SkillsArray(<<Go, SkillNull>>), Solid),
      Wire("json", SkillsArray(<<Go, Sql>>), Solid) }

\* The state of one request.  stages lists the stages run so far.
NewRequest ==
    [pc |-> "idle",
     wire |-> Wire("absent", SkillsOther("undefined"), JsUndefined),
     body |-> "none",
     validation |-> NotRun,
     prompt |-> NoPrompt,
     stages |-> <<>>,
     upstream |-> NoReply,
     response |-> NoResponse]

Init ==
    /\ req = [r \in Requests |-> NewRequest]
    /\ ParserIdle
    /\ ValidatorIdle

\* app.use(express.json()): it rejects a body that is not JSON before the
\* route runs (the framework answers 400); without a JSON body req.body is
\* the empty object or undefined, by the major version of the framework.
Receive(r, w) ==
    /\ req[r].pc = "idle"
    /\ \/ /\ w.kind = "malformed"
          /\ req' = [req EXCEPT ![r].wire = w, ![r].pc = "done",
                                ![r].response = Sent("framework", 400, NoResult, FALSE)]
       \/ /\ w.kind \in {"json", "absent"}
          /\ req' = [req EXCEPT ![r].wire = w, ![r].pc = "routed", ![r].body = "object"]
       \/ /\ w.kind = "absent"
          /\ req' = [req EXCEPT ![r].wire = w, ![r].pc = "routed", ![r].body = "undefined"]
    /\ UNCHANGED <<parserVars, validatorVars>>

\* A faulty variant of caught: the call is issued again.
caughtRetry(rq) ==
    [rq EXCEPT !.pc = "awaitFetch", !.stages = Append(@, "fetch")]

\* The catch block of SkillsFeedback, and the route's res.json(result).
caught(rq) ==
    [rq EXCEPT !.pc = "done", !.response = Sent("handler", 200, upstreamFailure, FALSE)]

\* The route from its first line to the first await that waits: the
\* destructuring (outside the try), validateInput, the prompt, the fetch call.
Handle(r) ==
    /\ req[r].pc = "routed"
    /\ LET rq == req[r]
           v == validateInput(rq.wire.skills, rq.wire.overallComment)
       IN  IF rq.body = "undefined"
           THEN req' = [req EXCEPT ![r].pc = "done", ![r].response = NoResponse]
           ELSE IF v.kind = "throw"
           THEN req' = [req EXCEPT ![r].pc = "done",
                                   ![r].validation = v,
                                   ![r].stages = Append(@, "validate"),
                                   ![r].response = Sent("handler", 500, internalError, TRUE)]
           ELSE IF ~v.isValid
           THEN req' = [req EXCEPT ![r].pc = "done",
                                   ![r].validation = v,
                                   ![r].stages = Append(@, "validate"),
                                   ![r].response = Sent("handler", 200, validationFailure(v), FALSE)]
           ELSE req' = [req EXCEPT ![r].pc = "awaitFetch",
                                   ![r].validation = v,
                                   ![r].prompt = buildPrompt(rq.wire.skills, rq.wire.overallComment),
                                   ![r].stages = Append(Append(@, "validate"), "fetch")]
    /\ UNCHANGED <<parserVars, validatorVars>>

\* await fetch(...) settles: rejected (caught), or a response arrived.
FetchSettles(r, u) ==
    /\ req[r].pc = "awaitFetch"
    /\ req[r].upstream = NoReply
    /\ IF u.net = "error"
       THEN req' = [req EXCEPT ![r] = caught([req[r] EXCEPT !.upstream = u])]
       ELSE req' = [req EXCEPT ![r].upstream = u, ![r].pc = "awaitJson"]
    /\ UNCHANGED <<parserVars, validatorVars>>

\* A faulty variant of ownReply: the reply is kept in one place for all requests,
\* and the last one to arrive is read.
sharedReply(r) ==
    LET others == {q \in Requests : q # r /\ req[q].upstream.net = "ok"}
    IN  IF others = {} THEN req[r].upstream
        ELSE req[CHOOSE q \in others : TRUE].upstream

\* const data = await response.json(): a local of this call.
ownReply(r) == req[r].upstream

\* await response.json() settles, in the branch for !response.ok or after
\* it: throw (caught), or the content is parsed and the result sent.
JsonSettles(r) ==
    /\ req[r].pc = "awaitJson"
    /\ LET u == ownReply(r)
       IN  IF u.json = "invalid" \/ ~u.ok \/ u.json = "noChoices"
           THEN req' = [req EXCEPT ![r] = caught(req[r])]
           ELSE IF u.json = "nullContent"
           THEN req' = [req EXCEPT ![r] = caught([req[r] EXCEPT !.stages = Append(@, "parse")])]
           ELSE req' = [req EXCEPT ![r].pc = "done",
                                   ![r].stages = Append(@, "parse"),
                                   ![r].response =
                                       Sent("handler", 200,
                                            successResult(parseFeedbackResponse(u.text)), FALSE)]
    /\ UNCHANGED <<parserVars, validatorVars>>

Next ==
    \E r \in Requests :
        \/ \E w \in Bodies : Receive(r, w)
        \/ Handle(r)
        \/ \E u \in Replies : FetchSettles(r, u)
        \/ JsonSettles(r)

Spec == Init /\ [][Next]_vars

(***************************************************************************)
(* SpecLabelled: the parser on the texts made of three label lines, one    *)
(* per category, in any order, any spelling of each label, with blank      *)
(* lines before, between and after them.                                   *)
(***************************************************************************)
ContentSchemes ==
    { [top |-> <<"A">>, practical |-> <<"B">>, domain |-> <<"C">>],
      [top |-> <<"B", SP, "A">>, practical |-> <<"1.", SP, "A">>, domain |-> <<"TOP", SP, "C">>],
      [top |-> <<"PRACTICAL", SP, "A">>, practical |-> <<"EXPERIENCE:", SP, "B">>,
       domain |-> <<"domain", "_", "C">>] }

Orders == {o \in [1..3 -> Categories] : \A i, j \in 1..3 : o[i] = o[j] => i = j}

BlankLines == {<<>>, Plain(<<SP>>)}

\* How many blank lines stand in each of the four gaps.
Gaps == {g \in [1..4 -> 0..MaxBlank] : g[1] + g[2] + g[3] + g[4] <= MaxBlank}

Blanks(n, blank) == [i \in 1..n |-> blank]

LabelledShape(order, variant, content, gaps, blank) ==
    Blanks(gaps[1], blank)
    \o <<Labelled(order[1], variant[order[1]], content[order[1]])>>
    \o Blanks(gaps[2], blank)
    \o <<Labelled(order[2], variant[order[2]], content[order[2]])>>
    \o Blanks(gaps[3], blank)
    \o <<Labelled(order[3], variant[order[3]], content[order[3]])>>
    \o Blanks(gaps[4], blank)

InitLabelled ==
    /\ \E order \in Orders, variant \in [Categories -> Variants],
          content \in ContentSchemes, gaps \in Gaps, blank \in BlankLines :
          shape = LabelledShape(order, variant, content, gaps, blank)
    /\ feedbackText = Render(shape)
    /\ ppc = "called"
    /\ scanned = Unset
    /\ parsedFeedback = Unset
    /\ result = NoResult
    /\ ValidatorIdle
    /\ RouteIdle

SpecLabelled == InitLabelled /\ [][NextParse]_vars

(***************************************************************************)
(* The claims.                                                             *)
(***************************************************************************)
Field(fields, cat) ==
    CASE cat = "top" -> fields.topStrengths
      [] cat = "practical" -> fields.practicalExperience
      [] cat = "domain" -> fields.domainKnowledge

Default(cat) ==
    CASE cat = "top" -> <<"Strong technical skills identified from assessment.">>
      [] cat = "practical" -> <<"Hands-on experience demonstrated through skill ratings.">>
      [] cat = "domain" -> <<"Domain expertise with areas for continued development.">>

AllUnavailable ==
    [success |-> FALSE, error |-> "Failed to generate feedback", hasFeedback |-> TRUE,
     feedback |-> [Top_strength |-> <<"Unable to generate feedback at this time.">>,
                   practical_Experience |-> <<"Unable to generate feedback at this time.">>,
                   DOmain_Knowledge |-> <<"Unable to generate feedback at this time.">>]]

PassedValidation(rq) == rq.validation.kind = "return" /\ rq.validation.isValid

\* The completion call returned a non-success status, or something threw
\* during the call or while its response was read.
UpstreamFailed(u) == u.net = "error" \/ (u.net = "ok" /\ (~u.ok \/ u.json # "text"))

\* C1: a request whose input fails validation is answered {success:false,
\* error: <the validator's message>} without a feedback field, and at no
\* point of that request is the outbound completion call made.
C1_ValidationFailureMakesNoCall ==
    \A r \in DOMAIN req :
        LET rq == req[r]
            v == validateInput(rq.wire.skills, rq.wire.overallComment)
        IN  (rq.body = "object" /\ v.kind = "return" /\ ~v.isValid) =>
                /\ \A i \in DOMAIN rq.stages : rq.stages[i] # "fetch"
                /\ rq.upstream = NoReply
                /\ rq.pc \notin {"awaitFetch", "awaitJson"}
                /\ rq.pc = "done" =>
                       rq.response =
                           Sent("handler", 200,
                                [success |-> FALSE, error |-> v.message,
                                 hasFeedback |-> FALSE, feedback |-> NoFeedback],
                                FALSE)

C1_Witness ==
    \E r \in DOMAIN req :
        /\ req[r].pc = "done"
        /\ req[r].validation.kind = "return"
        /\ req[r].response.body.error = "Each skill must have a rating between 1 and 5."
        /\ req[r].upstream = NoReply

\* C2: a request that passed validation and whose completion call failed
\* (non-success status, or a throw during the call or while its response is
\* read) is answered, not thrown: success false, error 'Failed to generate
\* feedback', and all three feedback fields the one fallback sentence.
C2_UpstreamFailureIsAllFallback ==
    \A r \in DOMAIN req :
        LET rq == req[r]
        IN  (rq.pc = "done" /\ PassedValidation(rq) /\ UpstreamFailed(rq.upstream)) =>
                rq.response = Sent("handler", 200, AllUnavailable, FALSE)

C2_Witness ==
    \E r \in DOMAIN req :
        /\ req[r].pc = "done"
        /\ PassedValidation(req[r])
        /\ req[r].upstream = Reply("ok", FALSE, "invalid", <<>>)
        /\ req[r].response.body = AllUnavailable

\* C3: whatever the text, parseFeedbackResponse returns three non-empty
\* fields, and so a success result carries three non-empty feedback fields.
C3_ParsedFieldsNonEmpty ==
    /\ ppc \in {"parsed", "returned"} =>
           \A cat \in Categories : Field(parsedFeedback, cat) # <<>>
    /\ ppc = "returned" =>
           /\ result.success /\ result.hasFeedback
           /\ result.feedback.Top_strength # <<>>
           /\ result.feedback.practical_Experience # <<>>
           /\ result.feedback.DOmain_Knowledge # <<>>

C3_Witness ==
    /\ ppc = "returned"
    /\ scanned.topStrengths = <<>>
    /\ scanned.practicalExperience = <<"B">>
    /\ \E i \in DOMAIN shape : shape[i] = Labelled("top", "UPPER_", <<>>)
    /\ result.feedback.Top_strength = Default("top")

\* The request met an exception that is neither a validation failure nor
\* an upstream failure: a body that is not JSON, a body that is missing, a
\* validator that threw.
Unexpected(rq) ==
    rq.wire.kind = "malformed" \/ rq.body = "undefined" \/ rq.validation.kind = "throw"

\* C4: every handled outcome is answered with HTTP 200 and the ApiResponse,
\* every unexpected exception with HTTP 500, 'Internal server error' and a
\* timestamp.
C4_Claim ==
    \A r \in DOMAIN req :
        LET rq == req[r]
        IN  rq.pc = "done" =>
                IF Unexpected(rq)
                THEN rq.response =
                         Sent("handler", 500,
                              [success |-> FALSE, error |-> "Internal server error",
                               hasFeedback |-> FALSE, feedback |-> NoFeedback],
                              TRUE)
                ELSE rq.response.sender = "handler" /\ rq.response.status = 200

\* What the validator is said to accept.
SkillsOk(skills) == skills.k = "array" /\ Len(skills.elems) > 0
CommentOk(c) == c.k = "string" /\ \E i \in DOMAIN c.s : c.s[i] \notin {" ", "\n"}
NameOk(e) == e.k = "object" /\ e.name.k = "string" /\ e.name.s # <<>>
RatingOk(e) == e.k = "object" /\ e.rating.k = "number" /\ e.rating.n >= 10 /\ e.rating.n <= 50

\* The answer the claim gives for a pair of arguments: valid, or the message
\* of the first check that fails.
ExpectedValidation(skills, c) ==
    IF ~SkillsOk(skills) THEN Returned(FALSE, "Invalid input. Please provide an array of skills.")
    ELSE IF ~CommentOk(c) THEN Returned(FALSE, "Please provide an overall comment about your skills.")
    ELSE LET bad == {i \in DOMAIN skills.elems :
                        ~NameOk(skills.elems[i]) \/ ~RatingOk(skills.elems[i])}
         IN  IF bad = {} THEN Returned(TRUE, "")
             ELSE LET i == CHOOSE b \in bad : \A d \in bad : b <= d
                  IN  IF ~NameOk(skills.elems[i])
                      THEN Returned(FALSE, "Each skill must have a valid name.")
                      ELSE Returned(FALSE, "Each skill must have a rating between 1 and 5.")

\* C5: validateInput returns isValid:true exactly for a non-empty array of
\* skills with a non-empty string name and a numeric rating in [1,5] each
\* and a comment that is a string not blank, and otherwise isValid:false
\* with the message of the first failing check.
C5_Claim ==
    validation # NotRun => validation = ExpectedValidation(vskills, vcomment)

\* The content given to a category by the one line that carries its label.
ContentOf(cat) ==
    LET i == CHOOSE i \in DOMAIN shape : shape[i] # <<>> /\ shape[i][1].cat = cat
    IN  shape[i][1].text

\* C6: three label lines with contents A, B, C, in any order, either form
\* of each label in any letter case, blank lines in between: the parser
\* returns {topStrengths: A, practicalExperience: B, domainKnowledge: C}.
C6_ThreeLabelsParsed ==
    ppc \in {"parsed", "returned"} =>
        parsedFeedback = [topStrengths |-> ContentOf("top"),
                          practicalExperience |-> ContentOf("practical"),
                          domainKnowledge |-> ContentOf("domain")]

C6_Witness ==
    /\ ppc = "parsed"
    /\ Len(shape) = 5
    /\ shape[1] = Labelled("domain", "lower ", <<"TOP", SP, "C">>)
    /\ shape[2] = Plain(<<SP>>)
    /\ shape[3] = Labelled("top", "lower_", <<"B", SP, "A">>)
    /\ shape[5] = Labelled("practical", "Mixed ", <<"1.", SP, "A">>)
    /\ parsedFeedback.domainKnowledge = <<"TOP", SP, "C">>

CarriesLabel(line, cat) == \E j \in DOMAIN line : line[j].cat = cat

EmptyLabelLines(cat) ==
    {i \in DOMAIN shape : shape[i] # <<>> /\ shape[i] = Labelled(cat, shape[i][1].variant, <<>>)}

Without(cat) == SelectSeq(shape, LAMBDA line : ~CarriesLabel(line, cat))

\* C7: when the only lines with the label of a category are label lines
\* with nothing after the colon, that field is the canned default and the
\* other two fields are what they are without those lines.
C7_Claim ==
    ppc \in {"parsed", "returned"} =>
        \A cat \in Categories :
            (/\ EmptyLabelLines(cat) # {}
             /\ \A i \in DOMAIN shape : CarriesLabel(shape[i], cat) => i \in EmptyLabelLines(cat))
            => /\ Field(parsedFeedback, cat) = Default(cat)
               /\ \A other \in Categories \ {cat} :
                      Field(parsedFeedback, other)
                          = Field(parseFeedbackResponse(Render(Without(cat))), other)

\* The state is a function of the request's own input and of the reply to
\* its own call.
ExpectedResponse(rq) ==
    LET v == validateInput(rq.wire.skills, rq.wire.overallComment)
    IN  IF rq.wire.kind = "malformed" THEN Sent("framework", 400, NoResult, FALSE)
        ELSE IF rq.body = "undefined" THEN NoResponse
        ELSE IF v.kind = "throw"
        THEN Sent("handler", 500,
                  [success |-> FALSE, error |-> "Internal server error",
                   hasFeedback |-> FALSE, feedback |-> NoFeedback], TRUE)
        ELSE IF ~v.isValid
        THEN Sent("handler", 200,
                  [success |-> FALSE, error |-> v.message,
                   hasFeedback |-> FALSE, feedback |-> NoFeedback], FALSE)
        ELSE IF UpstreamFailed(rq.upstream) THEN Sent("handler", 200, AllUnavailable, FALSE)
        ELSE Sent("handler", 200, successResult(parseFeedbackResponse(rq.upstream.text)), FALSE)

\* C8: with requests in flight at once, interleaved in any order, the
\* response to each is determined by its own input and the reply to its
\* own outbound call.
C8_RequestsIndependent ==
    \A r \in DOMAIN req : req[r].pc = "done" => req[r].response = ExpectedResponse(req[r])

C8_Witness ==
    \E r, q \in DOMAIN req :
        /\ r # q
        /\ req[r].pc = "done" /\ req[q].pc = "awaitJson"
        /\ req[r].upstream.json = "text" /\ req[q].upstream.json = "text"
        /\ req[r].upstream # req[q].upstream
        /\ req[r].response.body.success

Pipeline == <<"validate", "fetch", "parse">>

\* C9: the stages of a request run in the order validator, outbound call,
\* parser, each at most once; the call only after a successful validation
\* and never again, the parser only after a successful completion response;
\* nothing after a failure.
C9_StagesInOrderOnce ==
    \A r \in DOMAIN req :
        LET rq == req[r]
            n == Len(rq.stages)
        IN  /\ n <= Len(Pipeline) /\ rq.stages = SubSeq(Pipeline, 1, n)
            /\ n >= 2 => PassedValidation(rq)
            /\ n = 3 => /\ rq.upstream.net = "ok" /\ rq.upstream.ok
                        /\ rq.upstream.json \in {"text", "nullContent"}
            /\ (rq.validation.kind # "none" /\ ~PassedValidation(rq)) => n = 1
            /\ (rq.upstream.net = "error" \/ (rq.upstream.net = "ok" /\ ~rq.upstream.ok)) => n = 2

C9_Witness ==
    \E r \in DOMAIN req :
        /\ req[r].pc = "done"
        /\ req[r].upstream = Reply("ok", FALSE, "error", <<>>)
        /\ req[r].stages = <<"validate", "fetch">>

\* The first segment of the line that carries the label of the category.
LabelAt(line, cat) ==
    CHOOSE j \in DOMAIN line : line[j].cat = cat /\ \A k \in DOMAIN line : line[k].cat = cat => j <= k

\* What is left of the line when that label is taken out.
LineContent(line, cat) == trim(RenderFrom(line, 1, LabelAt(line, cat)))

Last(S) == CHOOSE i \in S : \A j \in S : i >= j

LinesCarrying(cat) == {i \in DOMAIN shape : CarriesLabel(shape[i], cat)}

\* The category whose branch of the if / else if chain takes the line.
AssignedTo(line) ==
    IF CarriesLabel(line, "top") THEN "top"
    ELSE IF CarriesLabel(line, "practical") THEN "practical"
    ELSE IF CarriesLabel(line, "domain") THEN "domain"
    ELSE "none"

LinesAssigned(cat) == {i \in DOMAIN shape : AssignedTo(shape[i]) = cat}

\* C10 as stated: after the line scan a field holds the content of the last
\* line that carries the label of its category.
C10_Claim ==
    ppc # "called" =>
        \A cat \in Categories :
            Field(scanned, cat) =
                IF LinesCarrying(cat) = {} THEN <<>>
                ELSE LineContent(shape[Last(LinesCarrying(cat))], cat)

\* C10, amended: after the line scan a field holds the content of the last
\* line taken for its category, a line being taken for the first category,
\* in the order top strengths, practical experience, domain knowledge,
\* whose label it carries; a later line overwrites an earlier one, also
\* with an empty content.
C10_LastAssignedLineWins ==
    ppc # "called" =>
        \A cat \in Categories :
            Field(scanned, cat) =
                IF LinesAssigned(cat) = {} THEN <<>>
                ELSE LineContent(shape[Last(LinesAssigned(cat))], cat)

C10_Witness ==
    /\ ppc = "scanned"
    /\ Len(shape) = 3
    /\ shape[1] = Labelled("top", "UPPER_", <<"A">>)
    /\ shape[2] = Labelled("domain", "lower ", <<"C">>)
    /\ shape[3] = Labelled("top", "Mixed ", <<"B">>)
    /\ scanned.topStrengths = <<"B">>

====
